---- MODULE Spec2Model ----
(***************************************************************************)
(* Model of bootstrap.cc: a sequential bootstrap significance test for     *)
(* timing-based blind SQL injection detection.                             *)
(*                                                                         *)
(* fp_t (double) values are modelled by exact numbers.  Observations are   *)
(* integers; a mean is the pair <<sum, count>>; a bootstrap replicate      *)
(* mean(xSample) - mean(ySample) is stored as its numerator over the       *)
(* common positive denominator |x| * |y|, which is the same for every      *)
(* replicate of one call of rejected, so order and sign are preserved.     *)
(* A significance level alpha is the pair <<num, den>> = num / den.        *)
(* assert is modelled as compiled in (no NDEBUG): a failing assertion      *)
(* aborts the process (exit status 134, SIGABRT).                          *)
(***************************************************************************)
EXTENDS Integers, Sequences, FiniteSets, TLC

VARIABLES
  stdin,        \* the input stream: [count |-> n, reals |-> the 2n reals]
  pc,           \* position of the thread of control
  samples,      \* main: samples.first / samples.second, the two backlogs
  orig,         \* history: the pair of backlogs as handed to the driver
  x, y,         \* the two groups
  current,      \* main: current
  exitStatus,   \* process exit status; -1 while running
  calls,        \* history: one record per invocation of rejected by main
  nBoot,        \* rejected: number of replicates drawn (BOOTSTRAP_SAMPLES)
  b,            \* rejected: loop counter b
  xSample,      \* rejected: xSample being drawn
  ySample,      \* rejected: ySample being drawn
  bootStrapped, \* rejected: the replicate set
  alpha,        \* getInterval: alpha, as <<num, den>>
  bounds,       \* rejected: bounds, <<first, second>>; <<>> before it is set
  verdicts      \* the values returned by rejected so far

vars == <<stdin, pc, samples, orig, x, y, current, exitStatus, calls,
          nBoot, b, xSample, ySample, bootStrapped, alpha, bounds, verdicts>>

testerVars == <<nBoot, b, xSample, ySample, bootStrapped, alpha, bounds, verdicts>>

----------------------------------------------------------------------------
(* Program constants *)

BOOTSTRAP_SAMPLES == 10000
SIGNIFICANCE_ALPHA == <<1, 100>>
INITAL_SAMPLE_SIZE == 4
MAX_SAMPLE_SIZE == 60

(* Bounds of the model *)

MaxBacklog == 62       \* largest backlog size N per group
MaxGroupLen == 5       \* largest group handed to rejected on its own
MaxReplicates == 3     \* largest number of replicates drawn in the tester runs
MaxSmallLen == 6       \* replicate sets of every size 1..MaxSmallLen
LongLen == 202         \* one long replicate set size with interior percentiles
MaxEdge == 5           \* long sets change value within MaxEdge of an end

----------------------------------------------------------------------------
(* Helpers *)

Range(s) == {s[i] : i \in 1..Len(s)}

RECURSIVE SumSeq(_)
SumSeq(s) == IF s = <<>> THEN 0 ELSE Head(s) + SumSeq(Tail(s))

IsSorted(s) == \A i \in 1..(Len(s) - 1) : s[i] <= s[i + 1]

----------------------------------------------------------------------------
(* readSamples: pops n elements from the front of input, in order.         *)
(* ok is the assertion input.size() >= n && n != 0.                        *)

RECURSIVE readLoop(_, _, _, _)
readLoop(input, result, i, n) ==
  IF i < n
  THEN readLoop(Tail(input), Append(result, Head(input)), i + 1, n)
  ELSE [result |-> result, input |-> input]

readSamples(input, n) ==
  IF Len(input) >= n /\ n # 0
  THEN [ok |-> TRUE] @@ readLoop(input, <<>>, 0, n)
  ELSE [ok |-> FALSE, result |-> <<>>, input |-> input]

----------------------------------------------------------------------------
(* average: the mean sum / values.size(), kept as the pair <<sum, count>>. *)

average(values) == <<SumSeq(values), Len(values)>>

(* average(xSample) - average(ySample), as the numerator of the difference *)
(* over the common denominator p[2] * q[2] > 0.                            *)
Difference(p, q) == p[1] * q[2] - q[1] * p[2]

(* std::sort: the ascending rearrangement of s, built value by value from *)
(* the smallest value on.                                                  *)
RECURSIVE SortFrom(_, _)
SortFrom(s, vals) ==
  IF vals = {}
  THEN <<>>
  ELSE LET v == CHOOSE u \in vals : \A w \in vals : u <= w
       IN SelectSeq(s, LAMBDA e : e = v) \o SortFrom(s, vals \ {v})

Sort(s) == SortFrom(s, Range(s))

LowerPosCeil(m, a) == 0 - ((0 - (m - 1) * a[1]) \div (2 * a[2]))

(* std::floor(lowerIndex), lowerIndex = (m - 1) * alpha / 2 *)
LowerPos(m, a) == ((m - 1) * a[1]) \div (2 * a[2])

UpperPosFloor(m, a) == ((m - 1) * (2 * a[2] - a[1])) \div (2 * a[2])

(* std::ceil(upperIndex), upperIndex = (m - 1) * (1 - alpha / 2) *)
UpperPos(m, a) == 0 - ((0 - (m - 1) * (2 * a[2] - a[1])) \div (2 * a[2]))

(* getInterval: values.at(i) is element i + 1 of the sequence. *)
getInterval(values, a) ==
  <<values[LowerPos(Len(values), a) + 1],
    values[UpperPos(Len(values), a) + 1]>>

Includes0AtEnds(bnd) == bnd[1] >= 0 \/ bnd[2] <= 0

(* return(bounds.first > 0 || bounds.second < 0) *)
Excludes0(bnd) == bnd[1] > 0 \/ bnd[2] < 0

----------------------------------------------------------------------------
(* rejected(x, y), the Hypothesis Tester, one step per draw of the         *)
(* generator.  nBoot stands for BOOTSTRAP_SAMPLES.                         *)

(* sample(x, x.size()): one more element values[dist(g_rng)] of xSample *)
SampleX ==
  /\ pc = "sample_x"
  /\ \E k \in 0..(Len(x) - 1) :
       xSample' = Append(xSample, x[k + 1])
  /\ pc' = IF Len(xSample) + 1 < Len(x) THEN "sample_x" ELSE "sample_y"
  /\ UNCHANGED <<stdin, samples, orig, x, y, current, exitStatus, calls>>
  /\ UNCHANGED <<nBoot, b, ySample, bootStrapped, alpha, bounds, verdicts>>

SampleY ==
  /\ pc = "sample_y"
  /\ \E k \in 0..(Len(y) - 1) :
       ySample' = Append(ySample, y[k + 1])
  /\ pc' = IF Len(ySample) + 1 < Len(y) THEN "sample_y" ELSE "push"
  /\ UNCHANGED <<stdin, samples, orig, x, y, current, exitStatus, calls>>
  /\ UNCHANGED <<nBoot, b, xSample, bootStrapped, alpha, bounds, verdicts>>

PushReplicate ==
  /\ pc = "push"
  /\ bootStrapped' =
       Append(bootStrapped, Difference(average(xSample), average(ySample)))
  /\ b' = b + 1
  /\ xSample' = <<>>
  /\ ySample' = <<>>
  /\ pc' = IF b + 1 < nBoot THEN "sample_x" ELSE "sort"
  /\ UNCHANGED <<stdin, samples, orig, x, y, current, exitStatus, calls>>
  /\ UNCHANGED <<nBoot, alpha, bounds, verdicts>>

SortReplicates ==
  /\ pc = "sort"
  /\ bootStrapped' = Sort(bootStrapped)
  /\ pc' = "interval"
  /\ UNCHANGED <<stdin, samples, orig, x, y, current, exitStatus, calls>>
  /\ UNCHANGED <<nBoot, b, xSample, ySample, alpha, bounds, verdicts>>

Interval ==
  /\ pc = "interval"
  /\ bounds' = getInterval(bootStrapped, alpha)
  /\ pc' = "return"
  /\ UNCHANGED <<stdin, samples, orig, x, y, current, exitStatus, calls>>
  /\ UNCHANGED <<nBoot, b, xSample, ySample, bootStrapped, alpha, verdicts>>

Return ==
  /\ pc = "return"
  /\ verdicts' = Append(verdicts, Excludes0(bounds))
  /\ pc' = "returned"
  /\ UNCHANGED <<stdin, samples, orig, x, y, current, exitStatus, calls>>
  /\ UNCHANGED <<nBoot, b, xSample, ySample, bootStrapped, alpha, bounds>>

(* rejected(y, x) on the same draws: every replicate is the difference     *)
(* taken the other way round, and the set is sorted again.                 *)
Exchanged(reps) == [i \in 1..Len(reps) |-> 0 - reps[i]]

SwapGroups ==
  /\ pc = "returned"
  /\ Len(verdicts) = 1
  /\ bootStrapped' = Sort(Exchanged(bootStrapped))
  /\ bounds' = <<>>
  /\ pc' = "interval"
  /\ UNCHANGED <<stdin, samples, orig, x, y, current, exitStatus, calls>>
  /\ UNCHANGED <<nBoot, b, xSample, ySample, alpha, verdicts>>

(* The values rejected(gx, gy) can return over all outcomes of the draws:  *)
(* every replicate lies between min(gx) - max(gy) and max(gx) - min(gy),   *)
(* and both extremes can be drawn for every replicate.                     *)
MinOf(s) == CHOOSE v \in Range(s) : \A w \in Range(s) : v <= w
MaxOf(s) == CHOOSE v \in Range(s) : \A w \in Range(s) : v >= w

rejected(gx, gy) ==
  { v \in BOOLEAN :
      IF v
      THEN MaxOf(gx) - MinOf(gy) > 0 \/ MinOf(gx) - MaxOf(gy) < 0
      ELSE MinOf(gx) - MaxOf(gy) <= 0 /\ MaxOf(gx) - MinOf(gy) >= 0 }

----------------------------------------------------------------------------
(* parseInput: numValues reals for the reference, then numValues more for  *)
(* the offset group.                                                       *)

fill(reals, from, numValues) == [i \in 1..numValues |-> reals[from + i]]

parseInput(in) ==
  [first  |-> fill(in.reals, 0, in.count),
   second |-> fill(in.reals, in.count, in.count)]

----------------------------------------------------------------------------
(* main, the Sequential Driver *)

(* A failing assert: abort() raises SIGABRT, reported as status 134. *)
Abort ==
  /\ pc' = "abort"
  /\ exitStatus' = 134

ParseInput ==
  /\ pc = "parse"
  /\ samples' = parseInput(stdin)
  /\ orig' = parseInput(stdin)
  /\ pc' = "assert"
  /\ UNCHANGED <<stdin, x, y, current, exitStatus, calls>>
  /\ UNCHANGED testerVars

AssertSizes ==
  /\ pc = "assert"
  /\ IF /\ Len(samples.first) >= INITAL_SAMPLE_SIZE
        /\ Len(samples.first) >= MAX_SAMPLE_SIZE
     THEN pc' = "init_x" /\ UNCHANGED exitStatus
     ELSE Abort
  /\ UNCHANGED <<stdin, samples, orig, x, y, current, calls>>
  /\ UNCHANGED testerVars

InitX ==
  /\ pc = "init_x"
  /\ LET r == readSamples(samples.first, INITAL_SAMPLE_SIZE) IN
       IF r.ok
       THEN /\ x' = r.result
            /\ samples' = [samples EXCEPT !.first = r.input]
            /\ pc' = "init_y"
            /\ UNCHANGED exitStatus
       ELSE Abort /\ UNCHANGED <<x, samples>>
  /\ UNCHANGED <<stdin, orig, y, current, calls>>
  /\ UNCHANGED testerVars

InitY ==
  /\ pc = "init_y"
  /\ LET r == readSamples(samples.second, INITAL_SAMPLE_SIZE) IN
       IF r.ok
       THEN /\ y' = r.result
            /\ samples' = [samples EXCEPT !.second = r.input]
            /\ current' = INITAL_SAMPLE_SIZE
            /\ pc' = "while"
            /\ UNCHANGED exitStatus
       ELSE Abort /\ UNCHANGED <<y, samples, current>>
  /\ UNCHANGED <<stdin, orig, x, calls>>
  /\ UNCHANGED testerVars

LoopBoundOffByOne == MAX_SAMPLE_SIZE + 1

LoopBound == MAX_SAMPLE_SIZE

While ==
  /\ pc = "while"
  /\ IF current <= LoopBound
     THEN pc' = "rejected" /\ UNCHANGED exitStatus
     ELSE pc' = "exit" /\ exitStatus' = 0
  /\ UNCHANGED <<stdin, samples, orig, x, y, current, calls>>
  /\ UNCHANGED testerVars

OnVerdictIgnored(v) ==
  IF v
  THEN pc' = "insert_x" /\ UNCHANGED exitStatus
  ELSE pc' = "insert_x" /\ UNCHANGED exitStatus

(* The branch taken in main once rejected(x, y) has returned v. *)
OnVerdict(v) ==
  IF v
  THEN pc' = "exit" /\ exitStatus' = 1
  ELSE pc' = "insert_x" /\ UNCHANGED exitStatus

(* if(rejected(x, y)): with groups of up to 60 observations and 10000      *)
(* replicates the draws are not enumerated; the call returns any value     *)
(* that some outcome of the draws produces.                                *)
CallRejected ==
  /\ pc = "rejected"
  /\ \E v \in rejected(x, y) :
       /\ calls' = Append(calls, [nx |-> Len(x), ny |-> Len(y),
                                  current |-> current, verdict |-> v])
       /\ OnVerdict(v)
  /\ UNCHANGED <<stdin, samples, orig, x, y, current>>
  /\ UNCHANGED testerVars

InsertAtBegin(group, value) == <<value>> \o group

(* x.insert(std::end(x), value) *)
InsertAtEnd(group, value) == Append(group, value)

InsertX ==
  /\ pc = "insert_x"
  /\ LET r == readSamples(samples.first, 1) IN
       IF r.ok
       THEN /\ x' = InsertAtEnd(x, Head(r.result))
            /\ samples' = [samples EXCEPT !.first = r.input]
            /\ pc' = "insert_y"
            /\ UNCHANGED exitStatus
       ELSE Abort /\ UNCHANGED <<x, samples>>
  /\ UNCHANGED <<stdin, orig, y, current, calls>>
  /\ UNCHANGED testerVars

InsertY ==
  /\ pc = "insert_y"
  /\ LET r == readSamples(samples.second, 1) IN
       IF r.ok
       THEN /\ y' = InsertAtEnd(y, Head(r.result))
            /\ samples' = [samples EXCEPT !.second = r.input]
            /\ current' = current + 1
            /\ pc' = "while"
            /\ UNCHANGED exitStatus
       ELSE Abort /\ UNCHANGED <<y, samples, current>>
  /\ UNCHANGED <<stdin, orig, x, calls>>
  /\ UNCHANGED testerVars

----------------------------------------------------------------------------
(* Inputs of the driver *)

Streams(n) ==
  { [i \in 1..(2 * n) |-> 10],
    [i \in 1..(2 * n) |-> IF i <= n THEN i ELSE i - n + 1],
    [i \in 1..(2 * n) |-> IF i <= n THEN 0 ELSE 100] }

Inputs == UNION { { [count |-> n, reals |-> r] : r \in Streams(n) } : n \in 0..MaxBacklog }

TesterIdle ==
  /\ nBoot = 0
  /\ b = 0
  /\ xSample = <<>>
  /\ ySample = <<>>
  /\ bootStrapped = <<>>
  /\ alpha = SIGNIFICANCE_ALPHA
  /\ bounds = <<>>
  /\ verdicts = <<>>

Init ==
  /\ stdin \in Inputs
  /\ pc = "parse"
  /\ samples = [first |-> <<>>, second |-> <<>>]
  /\ orig = [first |-> <<>>, second |-> <<>>]
  /\ x = <<>>
  /\ y = <<>>
  /\ current = 0
  /\ exitStatus = -1
  /\ calls = <<>>
  /\ TesterIdle

Next ==
  \/ ParseInput
  \/ AssertSizes
  \/ InitX
  \/ InitY
  \/ While
  \/ CallRejected
  \/ InsertX
  \/ InsertY

Spec == Init /\ [][Next]_vars

----------------------------------------------------------------------------
(* The driver handed an arbitrary pair of backlogs (sizes independent),    *)
(* as by an acquisition collaborator other than parseInput.                *)

Backlogs ==
  { [first  |-> [i \in 1..nr |-> i],
     second |-> [i \in 1..no |-> i + 2]] :
    nr \in 0..MaxBacklog, no \in 0..MaxBacklog }

InitDriver ==
  /\ stdin = [count |-> 0, reals |-> <<>>]
  /\ pc = "assert"
  /\ samples \in Backlogs
  /\ orig = samples
  /\ x = <<>>
  /\ y = <<>>
  /\ current = 0
  /\ exitStatus = -1
  /\ calls = <<>>
  /\ TesterIdle

NextDriver ==
  \/ AssertSizes
  \/ InitX
  \/ InitY
  \/ While
  \/ CallRejected
  \/ InsertX
  \/ InsertY

SpecDriver == InitDriver /\ [][NextDriver]_vars

----------------------------------------------------------------------------
(* Properties of the driver *)

Terminated == pc \in {"exit", "abort"}

NeverRejected == \A i \in 1..Len(calls) : ~calls[i].verdict

LastCall == calls[Len(calls)]

(* C1: with a backlog of exactly N = 60 observations per group and a       *)
(* tester that returns false at every round, the driver ends in EXHAUSTED  *)
(* with exit status 0 and does not abort.                                  *)
C1_ExhaustedAtSixty ==
  (stdin.count = 60 /\ NeverRejected /\ Terminated)
    => (pc = "exit" /\ exitStatus = 0)

(* C2: when each backlog holds at least MAX_SAMPLE_SIZE observations, the  *)
(* readSamples assertion never fails, whatever the verdicts are: the       *)
(* driver never aborts.                                                    *)
C2_NoUnderflow ==
  (Len(orig.first) >= MAX_SAMPLE_SIZE /\ Len(orig.second) >= MAX_SAMPLE_SIZE)
    => (pc # "abort" /\ exitStatus # 134)

(* C3: a true verdict is always the last invocation of the tester and has  *)
(* put the driver in REJECTED with exit status 1 in the same step; at exit *)
(* status 1 the last invocation returned true at current <= 60 and no      *)
(* observation was taken from either backlog after it.                     *)
C3_EarlyStop ==
  /\ \A i \in 1..Len(calls) :
       calls[i].verdict => (i = Len(calls) /\ pc = "exit" /\ exitStatus = 1)
  /\ exitStatus = 1 =>
       /\ pc = "exit"
       /\ calls # <<>>
       /\ LastCall.verdict
       /\ LastCall.current <= MAX_SAMPLE_SIZE
       /\ Len(x) = LastCall.nx
       /\ Len(y) = LastCall.ny
       /\ Len(samples.first) = Len(orig.first) - LastCall.nx
       /\ Len(samples.second) = Len(orig.second) - LastCall.ny

C3_Witness ==
  /\ exitStatus = 1
  /\ Len(calls) > 1
  /\ LastCall.current = MAX_SAMPLE_SIZE

(* C4: at every invocation of the tester both groups have the size         *)
(* current, 4 <= current <= 60, and the i-th invocation sees size 4+(i-1). *)
C4_ComparisonPoints ==
  \A i \in 1..Len(calls) :
    /\ calls[i].nx = calls[i].ny
    /\ calls[i].nx = calls[i].current
    /\ INITAL_SAMPLE_SIZE <= calls[i].current
    /\ calls[i].current <= MAX_SAMPLE_SIZE
    /\ calls[i].current = INITAL_SAMPLE_SIZE + (i - 1)

C4_Witness ==
  /\ calls # <<>>
  /\ LastCall.current = MAX_SAMPLE_SIZE
  /\ LastCall.nx = MAX_SAMPLE_SIZE

C8_GroupSizeBound ==
  /\ Len(x) <= MAX_SAMPLE_SIZE
  /\ Len(y) <= MAX_SAMPLE_SIZE

Conservation ==
  pc # "parse" =>
    /\ orig = parseInput(stdin)
    /\ x \o samples.first = orig.first
    /\ y \o samples.second = orig.second

IsPrefix(s, t) == Len(s) <= Len(t) /\ SubSeq(t, 1, Len(s)) = s

RoundStep ==
  /\ IsPrefix(x, x') /\ IsPrefix(y, y')
  /\ pc = "rejected" => UNCHANGED <<x, y, samples>>
  /\ (pc = "insert_x" /\ pc' = "insert_y") =>
       /\ x' = Append(x, Head(samples.first))
       /\ samples'.first = Tail(samples.first)
       /\ y' = y /\ samples'.second = samples.second
  /\ (pc = "insert_y" /\ pc' = "while") =>
       /\ y' = Append(y, Head(samples.second))
       /\ samples'.second = Tail(samples.second)
       /\ x' = x /\ samples'.first = samples.first
       /\ Len(x') = Len(y')

(* C9: a group followed by the rest of its backlog is always the original  *)
(* input sequence; a non-rejecting round moves the front of each backlog   *)
(* to the end of its group; no group loses or reorders an element and the  *)
(* tester changes neither the groups nor the backlogs.                     *)
C9_ArrivalOrder == []Conservation /\ [][RoundStep]_vars

C9_Witness ==
  /\ pc = "while"
  /\ Len(x) = 10
  /\ x[10] = 10
  /\ y[10] = 11
  /\ Head(samples.first) = 11

----------------------------------------------------------------------------
(* rejected(x, y) on its own, with every outcome of the draws *)

Values == {0, 10, 100}

ConstGroups == { [i \in 1..n |-> a] : a \in Values, n \in INITAL_SAMPLE_SIZE..MaxGroupLen }

MixedGroups == UNION { [1..n -> Values] : n \in 1..2 }

Groups == ConstGroups \cup MixedGroups

DriverIdle ==
  /\ stdin = [count |-> 0, reals |-> <<>>]
  /\ samples = [first |-> <<>>, second |-> <<>>]
  /\ orig = samples
  /\ current = 0
  /\ exitStatus = -1
  /\ calls = <<>>

InitTester ==
  /\ DriverIdle
  /\ x \in Groups
  /\ y \in Groups
  /\ (x \in ConstGroups) = (y \in ConstGroups)
  /\ nBoot \in 1..MaxReplicates
  /\ pc = "sample_x"
  /\ b = 0
  /\ xSample = <<>>
  /\ ySample = <<>>
  /\ bootStrapped = <<>>
  /\ alpha = SIGNIFICANCE_ALPHA
  /\ bounds = <<>>
  /\ verdicts = <<>>

NextTester ==
  \/ SampleX
  \/ SampleY
  \/ PushReplicate
  \/ SortReplicates
  \/ Interval
  \/ Return

SpecTester == InitTester /\ [][NextTester]_vars

----------------------------------------------------------------------------
(* getInterval on sorted replicate sets, and rejected on a replicate set   *)
(* and on the set of the exchanged groups                                  *)

(* every non-decreasing sequence of length m over {-1, 0, 1} *)
SortedSets(m) ==
  { [i \in 1..m |-> IF i <= lo THEN -1 ELSE IF i <= hi THEN 0 ELSE 1] :
    lo \in 0..m, hi \in 0..m }

(* the non-decreasing sequences of length m over {-1, 0, 1} whose changes  *)
(* of value lie within MaxEdge positions of either end                     *)
Edge(m) == (0..MaxEdge) \cup ((m - MaxEdge)..m)

SortedSetsAtEdges(m) ==
  { [i \in 1..m |-> IF i <= lo THEN -1 ELSE IF i <= hi THEN 0 ELSE 1] :
    lo \in Edge(m), hi \in Edge(m) }

(* the set holding its own positions: element at position k is k *)
Positions(m) == [i \in 1..m |-> i - 1]

Alphas == { <<1, 100>>, <<1, 10>>, <<1, 3>>, <<1, 2>>, <<29, 50>>, <<9, 10>>, <<99, 100>> }

InitInterval ==
  /\ DriverIdle
  /\ x = <<>>
  /\ y = <<>>
  /\ nBoot = 0
  /\ b = 0
  /\ xSample = <<>>
  /\ ySample = <<>>
  /\ \/ /\ bootStrapped \in UNION { SortedSets(m) : m \in 1..MaxSmallLen }
        /\ alpha \in Alphas
     \/ /\ bootStrapped \in { Positions(m) : m \in 1..MaxSmallLen }
        /\ alpha \in Alphas
     \/ /\ bootStrapped = Positions(101)
        /\ alpha = <<1, 10>>
     \/ /\ bootStrapped = Positions(BOOTSTRAP_SAMPLES)
        /\ alpha = SIGNIFICANCE_ALPHA
  /\ pc = "interval"
  /\ bounds = <<>>
  /\ verdicts = <<>>

NextInterval ==
  \/ Interval
  \/ Return

SpecInterval == InitInterval /\ [][NextInterval]_vars

InitSwap ==
  /\ DriverIdle
  /\ x = <<>>
  /\ y = <<>>
  /\ nBoot = 0
  /\ b = 0
  /\ xSample = <<>>
  /\ ySample = <<>>
  /\ bootStrapped \in UNION { SortedSets(m) : m \in 1..MaxSmallLen }
                        \cup SortedSetsAtEdges(LongLen)
  /\ alpha = SIGNIFICANCE_ALPHA
  /\ pc = "interval"
  /\ bounds = <<>>
  /\ verdicts = <<>>

NextSwap ==
  \/ Interval
  \/ Return
  \/ SwapGroups

SpecSwap == InitSwap /\ [][NextSwap]_vars

----------------------------------------------------------------------------
(* Properties of the tester *)

(* The values the driver takes for a call of rejected are the ones the     *)
(* stepwise tester returns.                                                *)
TesterWithinSummary ==
  \A i \in 1..Len(verdicts) : verdicts[i] \in rejected(x, y)

(* C6: the verdict on a sorted replicate set and the verdict on the sorted *)
(* negation of that set (groups exchanged) are the same boolean.           *)
C6_OrderIndependent ==
  Len(verdicts) = 2 => verdicts[1] = verdicts[2]

C6_Witness ==
  /\ verdicts = <<TRUE, TRUE>>
  /\ Len(bootStrapped) = LongLen
  /\ bootStrapped[1] = 0
  /\ bootStrapped[2] = 1

IsConst(g, a) == \A i \in 1..Len(g) : g[i] = a

(* C7: for constant groups x = [a]*N and y = [c]*N with N >= 4 the tester  *)
(* returns, for every outcome of the draws, true when a # c and false      *)
(* when a = c.                                                             *)
C7_ConstantGroups ==
  \A a \in Values, c \in Values :
    ( /\ IsConst(x, a) /\ IsConst(y, c)
      /\ Len(x) >= INITAL_SAMPLE_SIZE /\ Len(x) = Len(y)
      /\ pc = "returned" )
      => ( /\ Len(verdicts) = 1
           /\ verdicts[1] = (a # c)
           /\ \A i \in 1..Len(bootStrapped) :
                bootStrapped[i] = (a - c) * Len(x) * Len(y) )

C7_Witness ==
  /\ pc = "returned"
  /\ IsConst(x, 0) /\ IsConst(y, 100)
  /\ Len(x) = INITAL_SAMPLE_SIZE /\ Len(y) = INITAL_SAMPLE_SIZE
  /\ Len(bootStrapped) = MaxReplicates
  /\ verdicts = <<TRUE>>

(* The positions of the specification: the largest k with                  *)
(* k <= (m-1)*alpha/2 and the smallest k with k >= (m-1)*(1-alpha/2).      *)
FloorPos(m, a) ==
  CHOOSE k \in 0..(m - 1) :
    /\ k * 2 * a[2] <= (m - 1) * a[1]
    /\ (k + 1) * 2 * a[2] > (m - 1) * a[1]

CeilPos(m, a) ==
  CHOOSE k \in 0..(m - 1) :
    /\ k * 2 * a[2] >= (m - 1) * (2 * a[2] - a[1])
    /\ (k - 1) * 2 * a[2] < (m - 1) * (2 * a[2] - a[1])

====
